---- MODULE Spec2Model ----
(***************************************************************************)
(* Model of app.py: the price-text utilities clean_price and extract_unit, *)
(* the scraping loop of run_scraper with its de-duplication and sort, and  *)
(* the dashboard script that calls it and filters the result by location.  *)
(*                                                                         *)
(* A Python str is a sequence of one-character strings.  Python values of  *)
(* differing type are tagged records: None, Str(chars), Float(num, scale)  *)
(* where Float(n, k) is the decimal n / 10^k with no trailing zero, exact  *)
(* for the short digit strings used here (float() is exact on them up to   *)
(* the usual nearest-double rounding, which keeps order and equality).     *)
(***************************************************************************)
EXTENDS Integers, Sequences, FiniteSets, TLC

VARIABLES
    price_str,      \* utilities: the argument under test
    cp_result,      \* utilities: clean_price(price_str), or Unset
    eu_result,      \* utilities: extract_unit(price_str), or Unset
    pc,             \* dashboard: position of the script
    search_query,   \* dashboard: st.text_input value
    search_button,  \* dashboard: st.button value
    session,        \* the SB() browser session: "none", "open", "closed"
    opened,         \* number of sessions opened in this run
    n_tags,         \* run_scraper: len(price_tags)
    idx,            \* run_scraper: number of price tags the loop has taken
    raw_price,      \* run_scraper: raw_price of the last iteration, None if
                    \*   p.text raised before it was assigned
    outcome,        \* run_scraper: how the last iteration ended
    looked_up,      \* run_scraper: last iteration called p.find_element
    container,      \* run_scraper: container the last iteration built a row from
    listings,       \* run_scraper: the list of appended rows
    market_data,    \* the DataFrame returned by run_scraper (sequence of rows)
    cities,         \* dashboard: options of the location selectbox
    city_filter,    \* dashboard: st.selectbox value
    final_view,     \* dashboard: rows shown in the table and exported
    rendered        \* dashboard: "nothing", "results", "warning"

utilVars == <<price_str, cp_result, eu_result>>
runVars  == <<pc, search_query, search_button, session, opened, n_tags, idx,
              raw_price, outcome, looked_up, container, listings, market_data,
              cities, city_filter, final_view, rendered>>
vars     == <<price_str, cp_result, eu_result, pc, search_query,
              search_button, session, opened, n_tags, idx, raw_price, outcome,
              looked_up, container, listings, market_data, cities,
              city_filter, final_view, rendered>>

----------------------------------------------------------------------------
(* Bounds *)

MaxLen  == 4    \* longest enumerated argument of the utilities
MaxTags == 3    \* most price-tag elements on a page

----------------------------------------------------------------------------
(* Python values *)

None       == [kind |-> "None"]
Unset      == [kind |-> "unset"]
Str(cs)    == [kind |-> "str", chars |-> cs]
Float(n,k) == [kind |-> "float", num |-> n, scale |-> k]

RUPEE == "₹"

\* Characters in code-point order.
CodeOrder ==
    << " ", ",", ".", "/",
       "0", "1", "2", "3", "4", "5", "6", "7", "8", "9",
       "A", "B", "C", "D", "E", "F", "G", "H", "I", "J", "K", "L", "M",
       "N", "O", "P", "Q", "R", "S", "T", "U", "V", "W", "X", "Y", "Z",
       "_",
       "a", "b", "c", "d", "e", "f", "g", "h", "i", "j", "k", "l", "m",
       "n", "o", "p", "q", "r", "s", "t", "u", "v", "w", "x", "y", "z",
       RUPEE >>

Ord(c) == CHOOSE i \in 1..Len(CodeOrder) : CodeOrder[i] = c

Digit == {CodeOrder[i] : i \in 5..14}      \* regex \d
Upper == {CodeOrder[i] : i \in 15..40}
Lower == {CodeOrder[i] : i \in 42..67}
Word  == Digit \cup Upper \cup Lower \cup {"_"}     \* regex \w
Space == {" "}                                \* regex \s, str.strip()

IsDigit(c) == c \in Digit
IsUpper(c) == c \in Upper
IsLower(c) == c \in Lower
IsWord(c)  == c \in Word
IsSpace(c) == c \in Space

upper(c) == IF IsLower(c) THEN CodeOrder[Ord(c) - 27] ELSE c
lower(c) == IF IsUpper(c) THEN CodeOrder[Ord(c) + 27] ELSE c

DigitVal(c) == Ord(c) - 5

\* s[a..b], empty when a > b
Slice(s, a, b) == IF a > b THEN << >> ELSE SubSeq(s, a, b)

RECURSIVE replace(_, _)
\* str.replace(old, '') for a one-character old
replace(s, old) ==
    IF s = << >> THEN << >>
    ELSE IF Head(s) = old THEN replace(Tail(s), old)
         ELSE <<Head(s)>> \o replace(Tail(s), old)

RECURSIVE lstrip(_)
lstrip(s) == IF s # << >> /\ IsSpace(Head(s)) THEN lstrip(Tail(s)) ELSE s

RECURSIVE rstrip(_)
rstrip(s) ==
    IF s # << >> /\ IsSpace(s[Len(s)]) THEN rstrip(Slice(s, 1, Len(s) - 1))
    ELSE s

strip(s) == rstrip(lstrip(s))

RECURSIVE RunEnd(_, _, _)
\* Greedy x+ / x* from position i: the last position of the run of characters
\* in the set Cls that starts at i (i - 1 when s[i] is not in the class).
RunEnd(s, i, Cls) ==
    IF i <= Len(s) /\ s[i] \in Cls THEN RunEnd(s, i + 1, Cls) ELSE i - 1

RECURSIVE int(_)
\* value of a string of decimal digits
int(ds) ==
    IF ds = << >> THEN 0
    ELSE 10 * int(Slice(ds, 1, Len(ds) - 1)) + DigitVal(ds[Len(ds)])

RECURSIVE Normal(_, _)
Normal(n, k) ==
    IF k > 0 /\ n % 10 = 0 THEN Normal(n \div 10, k - 1) ELSE Float(n, k)

RECURSIVE Pow10(_)
Pow10(k) == IF k = 0 THEN 1 ELSE 10 * Pow10(k - 1)

\* float(text) for text matching \d+(\.\d+)?
float(text) ==
    LET e == RunEnd(text, 1, Digit)
        ip == Slice(text, 1, e)
        fr == Slice(text, e + 2, Len(text))
    IN  Normal(int(ip) * Pow10(Len(fr)) + int(fr), Len(fr))

----------------------------------------------------------------------------
(* clean_price *)

\* The match of (\d+(\.\d+)?) anchored at position i: <<first, last>> of
\* group 1, or << >> when the pattern does not match there.
PriceMatchAt(s, i) ==
    IF i > Len(s) \/ ~IsDigit(s[i]) THEN << >>
    ELSE LET e == RunEnd(s, i, Digit)
             f == RunEnd(s, e + 2, Digit)
         IN  IF e + 1 <= Len(s) /\ s[e + 1] = "." /\ f >= e + 2
             THEN <<i, f>>
             ELSE <<i, e>>

RECURSIVE PriceSearch(_, _)
\* re.search: the match at the leftmost position that has one
PriceSearch(s, i) ==
    IF i > Len(s) THEN << >>
    ELSE IF PriceMatchAt(s, i) # << >> THEN PriceMatchAt(s, i)
         ELSE PriceSearch(s, i + 1)

\* Python truth value of an argument: None, '' and 0.0 are false
Falsy(p) ==
    \/ p = None
    \/ p.kind = "str" /\ p.chars = << >>
    \/ p.kind = "float" /\ p.num = 0

\* clean_price without the removal of ','
clean_price_keep_commas(p) ==
    IF Falsy(p) THEN None
    ELSE IF p.kind # "str" THEN None
    ELSE LET clean_str == strip(replace(p.chars, RUPEE))
             match == PriceSearch(clean_str, 1)
         IN  IF match # << >>
             THEN float(Slice(clean_str, match[1], match[2]))
             ELSE None

clean_price(p) ==
    IF Falsy(p) THEN None
    ELSE IF p.kind # "str" THEN None        \* AttributeError -> except
    ELSE LET clean_str == strip(replace(replace(p.chars, ","), RUPEE))
             match == PriceSearch(clean_str, 1)
         IN  IF match # << >>
             THEN float(Slice(clean_str, match[1], match[2]))
             ELSE None

----------------------------------------------------------------------------
(* extract_unit *)

\* The match of /\s*(\w+) anchored at position i: <<first, last>> of group 1.
UnitMatchAt(s, i) ==
    IF i > Len(s) \/ s[i] # "/" THEN << >>
    ELSE LET w == RunEnd(s, i + 1, Space) + 1
             e == RunEnd(s, w, Word)
         IN  IF e >= w THEN <<w, e>> ELSE << >>

RECURSIVE UnitSearch(_, _)
UnitSearch(s, i) ==
    IF i > Len(s) THEN << >>
    ELSE IF UnitMatchAt(s, i) # << >> THEN UnitMatchAt(s, i)
         ELSE UnitSearch(s, i + 1)

\* upper-cases the first character and leaves the rest as it is
capitalize_first_only(s) ==
    [i \in 1..Len(s) |-> IF i = 1 THEN upper(s[i]) ELSE s[i]]

\* str.capitalize()
capitalize(s) ==
    [i \in 1..Len(s) |-> IF i = 1 THEN upper(s[i]) ELSE lower(s[i])]

PriceOnRequest ==
    <<"P","r","i","c","e"," ","o","n"," ","R","e","q","u","e","s","t">>
UnitRequest == <<"U","n","i","t","/","R","e","q","u","e","s","t">>
NA == <<"N","/","A">>

extract_unit(p) ==
    IF Falsy(p) THEN Str(PriceOnRequest)
    ELSE IF p.kind # "str" THEN Str(NA)     \* TypeError -> except
    ELSE LET match == UnitSearch(p.chars, 1)
         IN  IF match # << >>
             THEN Str(capitalize(strip(Slice(p.chars, match[1], match[2]))))
             ELSE Str(UnitRequest)

----------------------------------------------------------------------------
(* The page: texts of price-tag elements and the containers around them *)

Pipe      == <<"P", "i", "p", "e">>
Tube      == <<"T", "u", "b", "e">>
Acme      == <<"A", "c", "m", "e">>
Bolt      == <<"B", "o", "l", "t">>
Pune      == <<"P", "u", "n", "e">>
Delhi     == <<"D", "e", "l", "h", "i">>
AllCities == <<"A", "l", "l", " ", "C", "i", "t", "i", "e", "s">>

UnknownProduct ==
    <<"U", "n", "k", "n", "o", "w", "n", " ", "P", "r", "o", "d", "u", "c", "t">>
ContactSeller ==
    <<"C", "o", "n", "t", "a", "c", "t", " ", "S", "e", "l", "l", "e", "r">>
India == <<"I", "n", "d", "i", "a">>

Href1 == "https://www.indiamart.com/proddetail/pipe-1.html"
Href2 == "https://www.indiamart.com/proddetail/tube-2.html"

\* 25 characters, no digit, unit kg
Text25 ==
    <<RUPEE, " ", "o", "n", " ", "r", "e", "q", "u", "e", "s", "t", " ",
      "p", "e", "r", " ", "/", " ", "k", "g", " ", "n", "e", "t">>

\* p.text of the price-tag elements a page may hold
RawTexts ==
    { << >>,
      <<" ", " ">>,
      <<" ">> \o Text25 \o <<"t", " ">>,
      <<" ">> \o Text25 \o <<" ">>,
      <<RUPEE, "1", "0", "/", "k", "g">>,
      <<" ", RUPEE, " ", "5", ".", "5", "0", " ", "/", " ", "K", "G", " ">>,
      <<RUPEE, "5", "0", "/", "f", "t">> }

\* the four element lists the XPath queries of a container return
Containers ==
    { [name_el   |-> <<<<" ">> \o Pipe \o <<" ">>, Tube>>,
       link_el   |-> <<Href1, Href2>>,
       seller_el |-> <<Acme, Bolt>>,
       loc_el    |-> <<Pune, Delhi>>],
      [name_el   |-> << >>,
       link_el   |-> << >>,
       seller_el |-> << >>,
       loc_el    |-> << >>],
      [name_el   |-> <<Pipe>>,
       link_el   |-> << >>,
       seller_el |-> <<<<" ">> \o Acme>>,
       loc_el    |-> <<AllCities>>],
      [name_el   |-> << >>,
       link_el   |-> <<Href2>>,
       seller_el |-> << >>,
       loc_el    |-> <<Delhi, Pune>>],
      [name_el   |-> <<Tube, Pipe>>,
       link_el   |-> <<Href2, Href1>>,
       seller_el |-> <<Acme>>,
       loc_el    |-> << >>] }

SubElements == {"name_el", "link_el", "seller_el", "loc_el"}

----------------------------------------------------------------------------
(* run_scraper *)

\* the length test off by one
is_noise_over_26(raw) == raw = << >> \/ Len(raw) > 26

\* the noise filter of the loop
is_noise(raw) == raw = << >> \/ Len(raw) > 25

\* els[-1] in place of els[0]
last_text(els, default) == IF els # << >> THEN strip(els[Len(els)]) ELSE default

\* els[0].text.strip() if els else default
first_text(els, default) == IF els # << >> THEN strip(els[1]) ELSE default

\* els[0].get_attribute("href") if els else default
first_href(els, default) == IF els # << >> THEN els[1] ELSE default

\* the dict appended to listings
listing(raw, c) ==
    [Product  |-> first_text(c.name_el, UnknownProduct),
     Price    |-> raw,
     Seller   |-> first_text(c.seller_el, ContactSeller),
     Location |-> first_text(c.loc_el, India),
     Link     |-> first_href(c.link_el, "#")]

RECURSIVE Unseen(_, _)
\* rows whose (Product, Seller) is not in seen and not in an earlier row
Unseen(rows, seen) ==
    IF rows = << >> THEN << >>
    ELSE LET key == <<Head(rows).Product, Head(rows).Seller>>
         IN  IF key \in seen THEN Unseen(Tail(rows), seen)
             ELSE <<Head(rows)>> \o Unseen(Tail(rows), seen \cup {key})

\* the frame without drop_duplicates
keep_duplicates(rows) == rows

\* DataFrame.drop_duplicates(subset=['Product', 'Seller']), keep='first'
drop_duplicates(rows) == Unseen(rows, {})

RECURSIVE StrLess(_, _)
\* a < b for Python str
StrLess(a, b) ==
    IF b = << >> THEN FALSE
    ELSE IF a = << >> THEN TRUE
    ELSE IF Head(a) # Head(b) THEN Ord(Head(a)) < Ord(Head(b))
    ELSE StrLess(Tail(a), Tail(b))

\* x < y for two floats
FloatLess(x, y) == x.num * Pow10(y.scale) < y.num * Pow10(x.scale)

\* the sort keys swapped: by=['Numeric Price', 'Unit']
RowLess_price_first(a, b) ==
    \/ /\ a.NumericPrice # None
       /\ b.NumericPrice = None \/ FloatLess(a.NumericPrice, b.NumericPrice)
    \/ /\ a.NumericPrice = b.NumericPrice
       /\ StrLess(a.Unit, b.Unit)

\* the order of sort_values(by=['Unit', 'Numeric Price'], ascending=[True, True]):
\* NaN is placed last within each key
RowLess(a, b) ==
    \/ StrLess(a.Unit, b.Unit)
    \/ /\ a.Unit = b.Unit
       /\ a.NumericPrice # None
       /\ b.NumericPrice = None \/ FloatLess(a.NumericPrice, b.NumericPrice)

RECURSIVE Insert(_, _)
\* r placed after every row that is not greater (the sort is stable)
Insert(sorted, r) ==
    IF sorted = << >> THEN <<r>>
    ELSE IF RowLess(r, Head(sorted)) THEN <<r>> \o sorted
    ELSE <<Head(sorted)>> \o Insert(Tail(sorted), r)

RECURSIVE sort_values(_)
sort_values(rows) ==
    IF rows = << >> THEN << >>
    ELSE Insert(sort_values(Slice(rows, 1, Len(rows) - 1)), rows[Len(rows)])

\* the two columns added to a non-empty frame
WithColumns(r) ==
    [Product      |-> r.Product,
     Price        |-> r.Price,
     Seller       |-> r.Seller,
     Location     |-> r.Location,
     Link         |-> r.Link,
     NumericPrice |-> clean_price(Str(r.Price)),
     Unit         |-> extract_unit(Str(r.Price)).chars]

\* lines 85-93: the frame run_scraper returns for the appended rows
result_frame(rows) ==
    LET df == drop_duplicates(rows)
    IN  IF df # << >>
        THEN sort_values([i \in 1..Len(df) |-> WithColumns(df[i])])
        ELSE df

----------------------------------------------------------------------------
(* The dashboard script *)

HDPEPipes == <<"H", "D", "P", "E", " ", "P", "i", "p", "e", "s">>

RunInit ==
    /\ pc = "start" /\ search_query = << >> /\ search_button = FALSE
    /\ session = "none" /\ opened = 0 /\ n_tags = 0 /\ idx = 0
    /\ raw_price = None /\ outcome = "none" /\ looked_up = FALSE
    /\ container = None
    /\ listings = << >> /\ market_data = << >> /\ cities = << >>
    /\ city_filter = None /\ final_view = << >> /\ rendered = "nothing"

Init ==
    /\ price_str = None /\ cp_result = Unset /\ eu_result = Unset
    /\ RunInit

\* lines 102-109: the sidebar widgets are read and the condition is tested
Sidebar ==
    /\ pc = "start"
    /\ \E q \in {<< >>, HDPEPipes}, b \in BOOLEAN :
         /\ search_query' = q
         /\ search_button' = b
         /\ pc' = IF b /\ q # << >> THEN "scrape" ELSE "done"
    /\ UNCHANGED <<session, opened, n_tags, idx, raw_price, outcome, looked_up,
                   container, listings, market_data, cities, city_filter,
                   final_view, rendered>>
    /\ UNCHANGED utilVars

\* line 34: the with statement enters the SB() context
OpenSession ==
    /\ pc = "scrape"
    /\ session' = "open"
    /\ opened' = opened + 1
    /\ pc' = "browse"
    /\ UNCHANGED <<search_query, search_button, n_tags, idx, raw_price, outcome,
                   looked_up, container, listings, market_data, cities,
                   city_filter, final_view, rendered>>
    /\ UNCHANGED utilVars

\* line 34: SB() raises before a session exists; the script run ends
OpenSessionFails ==
    /\ pc = "scrape"
    /\ pc' = "crashed"
    /\ UNCHANGED <<search_query, search_button, session, opened, n_tags, idx,
                   raw_price, outcome, looked_up, container, listings,
                   market_data, cities, city_filter, final_view, rendered>>
    /\ UNCHANGED utilVars

\* lines 37-51: user agent, page load, scrolling, find_elements
FindPriceTags ==
    /\ pc = "browse"
    /\ \E n \in 0..MaxTags : n_tags' = n
    /\ idx' = 0
    /\ listings' = << >>
    /\ pc' = "loop"
    /\ UNCHANGED <<search_query, search_button, session, opened, raw_price,
                   outcome, looked_up, container, market_data, cities,
                   city_filter, final_view, rendered>>
    /\ UNCHANGED utilVars

\* a session that is not scoped by the with statement stays open
BrowseFails_Leak ==
    /\ pc = "browse"
    /\ pc' = "crashed"
    /\ UNCHANGED <<search_query, search_button, session, opened, n_tags, idx,
                   raw_price, outcome, looked_up, container, listings,
                   market_data, cities, city_filter, final_view, rendered>>
    /\ UNCHANGED utilVars

\* lines 37-51: a browser call raises; the with statement closes the session
\* and the exception leaves run_scraper
BrowseFails ==
    /\ pc = "browse"
    /\ session' = "closed"
    /\ pc' = "crashed"
    /\ UNCHANGED <<search_query, search_button, opened, n_tags, idx, raw_price,
                   outcome, looked_up, container, listings, market_data, cities,
                   city_filter, final_view, rendered>>
    /\ UNCHANGED utilVars

\* what one loop iteration leaves behind
Iteration(raw, how, looked, c, rows) ==
    /\ idx' = idx + 1
    /\ raw_price' = raw
    /\ outcome' = how
    /\ looked_up' = looked
    /\ container' = c
    /\ listings' = rows
    /\ pc' = "loop"
    /\ UNCHANGED <<search_query, search_button, session, opened, n_tags,
                   market_data, cities, city_filter, final_view, rendered>>
    /\ UNCHANGED utilVars

\* lines 54-55, 82-83: p.text raises
ScrapeTextFails ==
    /\ pc = "loop" /\ idx < n_tags
    /\ Iteration(None, "failed", FALSE, None, listings)

\* lines 55-57: the text is noise
ScrapeNoise ==
    /\ pc = "loop" /\ idx < n_tags
    /\ \E text \in RawTexts :
         /\ is_noise(strip(text))
         /\ Iteration(strip(text), "noise", FALSE, None, listings)

\* the loop without its try/except: the exception leaves run_scraper
ScrapeLookupFails_Propagates ==
    /\ pc = "loop" /\ idx < n_tags
    /\ \E text \in RawTexts :
         /\ ~is_noise(strip(text))
         /\ idx' = idx + 1
         /\ raw_price' = strip(text)
         /\ outcome' = "failed"
         /\ looked_up' = TRUE
         /\ container' = None
    /\ session' = "closed"
    /\ pc' = "crashed"
    /\ UNCHANGED <<search_query, search_button, opened, n_tags, listings,
                   market_data, cities, city_filter, final_view, rendered>>
    /\ UNCHANGED utilVars

\* lines 55-73, 82-83: the container lookup or the read of a sub-element raises
ScrapeLookupFails ==
    /\ pc = "loop" /\ idx < n_tags
    /\ \E text \in RawTexts :
         /\ ~is_noise(strip(text))
         /\ \E cause \in {"container"} \cup SubElements :
               \/ cause = "container"       \* find_element: no ancestor
               \/ /\ cause \in SubElements   \* els[0] is stale
                  /\ \E c \in Containers : c[cause] # << >>
         /\ Iteration(strip(text), "failed", TRUE, None, listings)

\* lines 55-81: a row is appended
ScrapeAppend ==
    /\ pc = "loop" /\ idx < n_tags
    /\ \E text \in RawTexts, c \in Containers :
         /\ ~is_noise(strip(text))
         /\ Iteration(strip(text), "appended", TRUE, c,
                      Append(listings, listing(strip(text), c)))

\* lines 85-93: the loop is over; the frame is built and returned, and the
\* with statement closes the session
ScrapeReturn ==
    /\ pc = "loop" /\ idx = n_tags
    /\ market_data' = result_frame(listings)
    /\ session' = "closed"
    /\ pc' = "returned"
    /\ UNCHANGED <<search_query, search_button, opened, n_tags, idx, raw_price,
                   outcome, looked_up, container, listings, cities, city_filter,
                   final_view, rendered>>
    /\ UNCHANGED utilVars

RECURSIVE sorted(_)
\* sorted() of a set of str
sorted(S) ==
    IF S = {} THEN << >>
    ELSE LET m == CHOOSE x \in S : \A y \in S : ~StrLess(y, x)
         IN  <<m>> \o sorted(S \ {m})

\* Series.unique() as a set
unique(rows) == {rows[i].Location : i \in 1..Len(rows)}

WithRank(rows) ==
    [i \in 1..Len(rows) |->
        [Product      |-> rows[i].Product,
         Price        |-> rows[i].Price,
         Seller       |-> rows[i].Seller,
         Location     |-> rows[i].Location,
         Link         |-> rows[i].Link,
         NumericPrice |-> rows[i].NumericPrice,
         Unit         |-> rows[i].Unit,
         SellerRank   |-> i]]

\* the filter without the 'All Cities' case
city_rows_always_filter(rows, city) ==
    LET IsIn(r) == r.Location = city
    IN  SelectSeq(rows, IsIn)

city_rows(rows, city) ==
    LET IsIn(r) == r.Location = city
    IN  IF city = AllCities THEN rows ELSE SelectSeq(rows, IsIn)

\* lines 117-168: a non-empty frame is ranked, charted, filtered and shown
RenderResults ==
    /\ pc = "returned" /\ market_data # << >>
    /\ market_data' = WithRank(market_data)
    /\ cities' = <<AllCities>> \o sorted(unique(market_data))
    /\ \E k \in 1..Len(cities') :
         /\ city_filter' = cities'[k]
         /\ final_view' = city_rows(market_data', cities'[k])
    /\ rendered' = "results"
    /\ pc' = "done"
    /\ UNCHANGED <<search_query, search_button, session, opened, n_tags, idx,
                   raw_price, outcome, looked_up, container, listings>>
    /\ UNCHANGED utilVars

\* lines 169-170: an empty frame gives the warning
RenderWarning ==
    /\ pc = "returned" /\ market_data = << >>
    /\ rendered' = "warning"
    /\ pc' = "done"
    /\ UNCHANGED <<search_query, search_button, session, opened, n_tags, idx,
                   raw_price, outcome, looked_up, container, listings,
                   market_data, cities, city_filter, final_view>>
    /\ UNCHANGED utilVars

Next ==
    \/ Sidebar
    \/ OpenSession
    \/ OpenSessionFails
    \/ FindPriceTags
    \/ BrowseFails
    \/ ScrapeTextFails
    \/ ScrapeNoise
    \/ ScrapeLookupFails
    \/ ScrapeAppend
    \/ ScrapeReturn
    \/ RenderResults
    \/ RenderWarning

Spec == Init /\ [][Next]_vars

----------------------------------------------------------------------------
(* Claims about run_scraper and the dashboard, checked under Spec *)

\* the loop has just taken one more price tag
LoopStep == pc = "loop" /\ idx' = idx + 1

\* C3: a failure while processing one price-tag element skips that element
\* only: no row is appended for it, the rows already appended are unchanged,
\* the loop goes on to the later elements (run_scraper returns only after all
\* n_tags elements were taken) and the failure does not leave run_scraper.
C3_SkipFailedElement ==
    /\ [][(LoopStep /\ outcome' = "failed") =>
             /\ listings' = listings
             /\ pc' = "loop"
             /\ session' = "open"]_vars
    /\ [](pc \in {"returned", "done"} => idx = n_tags)
    /\ [](pc = "crashed" => idx = 0 /\ outcome = "none")

C3_Witness ==
    /\ pc = "loop"
    /\ outcome = "failed"
    /\ looked_up
    /\ listings # << >>
    /\ idx < n_tags

\* C4: a run opens at most one browser session, and only when the button was
\* pressed and the query is not empty; the session is closed on every way out
\* of run_scraper, so none is open when results or the warning are rendered.
C4_OneScopedSession ==
    /\ opened <= 1
    /\ opened = 1 => search_button /\ search_query # << >>
    /\ session # "none" => opened = 1
    /\ pc \in {"returned", "done", "crashed"} => session # "open"
    /\ rendered # "nothing" => session = "closed"

C4_Witness ==
    /\ pc = "crashed"
    /\ opened = 1
    /\ session = "closed"

\* positions of the rows of the frame located in city
RowsIn(rows, city) == {i \in 1..Len(rows) : rows[i].Location = city}

\* the k-th smallest member of a set of positions
Nth(P, k) == CHOOSE i \in P : Cardinality({j \in P : j < i}) = k - 1

\* C5: with 'All Cities' selected the view holds every row of the result; with
\* a city selected it holds exactly the rows located there, in the order of the
\* result; every option but 'All Cities' is the Location of some row, so a
\* selected city never gives an empty view.
C5_LocationFilter ==
    rendered = "results" =>
        /\ \E k \in 1..Len(cities) : city_filter = cities[k]
        /\ city_filter = AllCities => final_view = market_data
        /\ city_filter # AllCities =>
             LET P == RowsIn(market_data, city_filter)
             IN  /\ Len(final_view) = Cardinality(P)
                 /\ \A k \in 1..Len(final_view) :
                        final_view[k] = market_data[Nth(P, k)]
                 /\ final_view # << >>
        /\ \A k \in 1..Len(cities) :
             cities[k] # AllCities => RowsIn(market_data, cities[k]) # {}

C5_Witness ==
    /\ rendered = "results"
    /\ city_filter = India
    /\ Len(final_view) = 2
    /\ Len(market_data) = 3
    /\ market_data[2].Location # India

RowFields == {"Product", "Price", "Seller", "Location", "Link"}

\* C6: every appended row has the five fields; Product, Seller, Location and
\* Link come from the first matching element of the container, or are
\* 'Unknown Product', 'Contact Seller', 'India' and '#' when there is none.
C6_FieldsAndDefaults ==
    /\ [](\A i \in 1..Len(listings) : DOMAIN listings[i] = RowFields)
    /\ [][(LoopStep /\ Len(listings') = Len(listings) + 1) =>
             LET r == listings'[Len(listings')]
                 c == container'
             IN  /\ r.Product = IF c.name_el = << >> THEN UnknownProduct
                                ELSE strip(c.name_el[1])
                 /\ r.Seller = IF c.seller_el = << >> THEN ContactSeller
                               ELSE strip(c.seller_el[1])
                 /\ r.Location = IF c.loc_el = << >> THEN India
                                 ELSE strip(c.loc_el[1])
                 /\ r.Link = IF c.link_el = << >> THEN "#"
                             ELSE c.link_el[1]]_vars

C6_Witness ==
    /\ outcome = "appended"
    /\ container.name_el = << >>
    /\ Len(container.loc_el) = 2
    /\ listings[Len(listings)].Product = UnknownProduct
    /\ listings[Len(listings)].Location = Delhi

\* a is not after b in the claimed order of the result
InOrder(a, b) ==
    \/ StrLess(a.Unit, b.Unit)
    \/ /\ a.Unit = b.Unit
       /\ a.NumericPrice = None => b.NumericPrice = None
       /\ (a.NumericPrice # None /\ b.NumericPrice # None) =>
             ~FloatLess(b.NumericPrice, a.NumericPrice)

\* C7: a non-empty result is ordered by Unit and, within a Unit, by Numeric
\* Price with the rows without a number last; Seller Rank is 1..n in this
\* order, so within a Unit the price never decreases with the rank and the
\* ranks of a Unit are consecutive.
C7_SortedResult ==
    /\ pc \in {"returned", "done"} =>
         \A i, j \in 1..Len(market_data) :
            i < j => InOrder(market_data[i], market_data[j])
    /\ rendered = "results" =>
         /\ \A i \in 1..Len(market_data) : market_data[i].SellerRank = i
         /\ \A i, j, k \in 1..Len(market_data) :
              (i < k /\ k < j /\ market_data[i].Unit = market_data[j].Unit)
                  => market_data[k].Unit = market_data[i].Unit

C7_Witness ==
    /\ rendered = "results"
    /\ Len(market_data) = 3
    /\ market_data[1].Unit # market_data[2].Unit
    /\ market_data[2].NumericPrice # None
    /\ market_data[3].NumericPrice = None
    /\ market_data[1].Price = listings[3].Price
    /\ market_data[2].Price = listings[2].Price

Pair(r) == <<r.Product, r.Seller>>

\* C8: the result never holds two rows with the same (Product, Seller); every
\* appended pair is in it exactly once, as the first row appended with it.
C8_UniquePairs ==
    pc \in {"returned", "done"} =>
        /\ \A i, j \in 1..Len(market_data) :
              Pair(market_data[i]) = Pair(market_data[j]) => i = j
        /\ \A i \in 1..Len(listings) :
              /\ \E j \in 1..Len(market_data) :
                    Pair(market_data[j]) = Pair(listings[i])
              /\ (\A h \in 1..(i - 1) : Pair(listings[h]) # Pair(listings[i])) =>
                    \E j \in 1..Len(market_data) :
                       /\ market_data[j].Product = listings[i].Product
                       /\ market_data[j].Seller = listings[i].Seller
                       /\ market_data[j].Price = listings[i].Price
                       /\ market_data[j].Location = listings[i].Location
                       /\ market_data[j].Link = listings[i].Link
        /\ \A j \in 1..Len(market_data) :
              \E i \in 1..Len(listings) : Pair(listings[i]) = Pair(market_data[j])

C8_Witness ==
    /\ pc = "returned"
    /\ Len(listings) = 3
    /\ Len(market_data) = 2
    /\ Pair(listings[1]) = Pair(listings[3])
    /\ listings[1].Price # listings[3].Price
    /\ listings[1].Location # listings[3].Location

\* a Price text as the loop lets it through
CleanShort(price) ==
    /\ Len(price) \in 1..25
    /\ price[1] # " "
    /\ price[Len(price)] # " "

\* C9: the Price of every row is stripped, non-empty and at most 25 characters
\* long; an element whose stripped text is empty or longer than 25 characters
\* adds no row and no container lookup is made for it.
C9_NoiseFilter ==
    /\ [](/\ \A i \in 1..Len(listings) : CleanShort(listings[i].Price)
          /\ \A i \in 1..Len(market_data) : CleanShort(market_data[i].Price))
    /\ [][(LoopStep /\ raw_price' # None
             /\ (raw_price' = << >> \/ Len(raw_price') > 25)) =>
             /\ listings' = listings
             /\ ~looked_up']_vars

C9_Witness ==
    /\ outcome = "noise"
    /\ Len(raw_price) = 26
    /\ ~looked_up
    /\ \E i \in 1..Len(listings) : Len(listings[i].Price) = 25

----------------------------------------------------------------------------
(* The utilities called on one argument *)

UtilAlphabet == {"0", "5", ".", ",", RUPEE, "/", " ", "k", "K", "_"}

DocExample == <<RUPEE, " ", "1", ",", "5", "0", "0", "/", "P", "i", "e", "c", "e">>
TwoPrices  == <<RUPEE, "1", "2", ".", "5", "0", " ", "/", " ", "k", "G", " ",
                "7", "/", "B", "o", "x">>

UtilInputs ==
    {None, Float(15, 1), Float(0, 0), Str(DocExample), Str(TwoPrices)}
    \cup {Str(cs) : cs \in UNION {[1..n -> UtilAlphabet] : n \in 0..MaxLen}}

RunIdle ==
    /\ pc = "idle" /\ search_query = << >> /\ search_button = FALSE
    /\ session = "none" /\ opened = 0 /\ n_tags = 0 /\ idx = 0
    /\ raw_price = None /\ outcome = "none" /\ looked_up = FALSE
    /\ container = None
    /\ listings = << >> /\ market_data = << >> /\ cities = << >>
    /\ city_filter = None /\ final_view = << >> /\ rendered = "nothing"

UtilInit ==
    /\ price_str \in UtilInputs
    /\ cp_result = Unset
    /\ eu_result = Unset
    /\ RunIdle

CallCleanPrice ==
    /\ cp_result = Unset
    /\ cp_result' = clean_price(price_str)
    /\ UNCHANGED <<price_str, eu_result>>
    /\ UNCHANGED runVars

CallExtractUnit ==
    /\ eu_result = Unset
    /\ eu_result' = extract_unit(price_str)
    /\ UNCHANGED <<price_str, cp_result>>
    /\ UNCHANGED runVars

UtilNext == CallCleanPrice \/ CallExtractUnit

UtilSpec == UtilInit /\ [][UtilNext]_vars

----------------------------------------------------------------------------
(* Claims about the utilities, checked under UtilSpec *)

IsStr(p) == p.kind = "str"

NotSeparator(c) == c \notin {",", RUPEE}

RECURSIVE Numeral(_, _)
\* the number written by the digits ds, read left to right onto acc
Numeral(ds, acc) ==
    IF ds = << >> THEN acc ELSE Numeral(Tail(ds), 10 * acc + DigitVal(Head(ds)))

\* last position of the maximal run of digits of t that starts at i
DigitsEnd(t, i) ==
    CHOOSE e \in i..Len(t) :
        /\ \A j \in i..e : t[j] \in Digit
        /\ e = Len(t) \/ t[e + 1] \notin Digit

\* r is the number written at the first numeral of t
IsFirstNumber(r, t) ==
    LET i == CHOOSE k \in 1..Len(t) :
                 t[k] \in Digit /\ \A j \in 1..(k - 1) : t[j] \notin Digit
        e == DigitsEnd(t, i)
        frac == e + 2 <= Len(t) /\ t[e + 1] = "." /\ t[e + 2] \in Digit
        f == IF frac THEN DigitsEnd(t, e + 2) ELSE e + 1
        whole == Numeral(Slice(t, i, e), 0)
        part  == Numeral(Slice(t, e + 2, f), 0)
        places == f - (e + 1)
    IN  /\ r.kind = "float"
        /\ r.num * Pow10(places) = (whole * Pow10(places) + part) * Pow10(r.scale)

\* C1: clean_price(s) is None when s is None or empty; otherwise, with every
\* ',' and every rupee sign removed from s, it is the number written by the
\* first maximal run of digits optionally followed by '.' and more digits, and
\* None when s has no digit.  The documented example gives 1500.0 and a string
\* holding several numbers gives the first one only.
C1_CleanPrice ==
    (cp_result # Unset /\ (price_str = None \/ IsStr(price_str))) =>
        IF price_str = None \/ price_str.chars = << >> THEN cp_result = None
        ELSE LET t == SelectSeq(price_str.chars, NotSeparator)
             IN  /\ (\A i \in 1..Len(t) : t[i] \notin Digit) => cp_result = None
                 /\ (\E i \in 1..Len(t) : t[i] \in Digit) => IsFirstNumber(cp_result, t)
                 /\ price_str = Str(DocExample) => cp_result = Float(1500, 0)
                 /\ price_str = Str(TwoPrices) => cp_result = Float(125, 1)

C1_Witness ==
    /\ price_str = Str(DocExample)
    /\ cp_result = Float(1500, 0)

\* positions of a '/' of s followed, after optional whitespace, by a word character
UnitSlashes(s) ==
    {i \in 1..Len(s) :
        /\ s[i] = "/"
        /\ \E j \in (i + 1)..Len(s) :
              s[j] \in Word /\ \A k \in (i + 1)..(j - 1) : s[k] \in Space}

IsCapitalizedUnit(r, s) ==
    LET i == CHOOSE k \in UnitSlashes(s) : \A m \in UnitSlashes(s) : k <= m
        j == CHOOSE k \in (i + 1)..Len(s) : s[k] \notin Space
        e == CHOOSE k \in j..Len(s) :
                 /\ \A m \in j..k : s[m] \in Word
                 /\ k = Len(s) \/ s[k + 1] \notin Word
    IN  /\ Len(r) = e - j + 1
        /\ r[1] = upper(s[j])
        /\ \A k \in 2..Len(r) : r[k] = lower(s[j + k - 1])

\* C2: extract_unit(s) is 'Price on Request' when s is None or empty; otherwise
\* the run of word characters after the first '/' that is followed (after
\* optional whitespace) by a word character, first character upper-cased and
\* the rest lower-cased; 'Unit/Request' when there is no such '/'.  For a
\* string argument the result is never 'N/A' and never empty.
C2_ExtractUnit ==
    (eu_result # Unset /\ (price_str = None \/ IsStr(price_str))) =>
        /\ IsStr(eu_result)
        /\ IF price_str = None \/ price_str.chars = << >>
           THEN eu_result.chars = PriceOnRequest
           ELSE IF UnitSlashes(price_str.chars) = {}
                THEN eu_result.chars = UnitRequest
                ELSE IsCapitalizedUnit(eu_result.chars, price_str.chars)
        /\ eu_result.chars # NA
        /\ eu_result.chars # << >>

C2_Witness ==
    /\ price_str = Str(TwoPrices)
    /\ eu_result = Str(<<"K", "g">>)

====
